---------------------------- MODULE Spec2Model ----------------------------
(***************************************************************************)
(* Model of haystack/nodes/file_converter/markdown.py: MarkdownConverter.  *)
(*                                                                         *)
(* Three specifications share the module:                                  *)
(*   SpecFlatten  the loop of _extract_text_and_headlines, one iteration   *)
(*                per step, over every small markup tree;                  *)
(*   SpecStrip    the two re.sub passes of convert followed by the parse   *)
(*                and the text extraction, over every small markup string; *)
(*   Spec         sequences of whole convert calls on one converter, with  *)
(*                the caller's meta dict as a shared mutable object.       *)
(*                                                                         *)
(* Text is a sequence of one-character strings, so len() is Len, slicing   *)
(* is SubSeq and += is \o.  A dict is a function whose DOMAIN is its key   *)
(* set.  A rendered markup string is a sequence of tokens: an opening tag, *)
(* a closing tag or one character of text.                                 *)
(***************************************************************************)
EXTENDS Integers, Sequences, FiniteSets, TLC

VARIABLES
    soup,                  \* flattener: the tree handed to _extract_text_and_headlines
    descendants,           \* flattener: the sequence soup.descendants iterates over
    idx,                   \* flattener: number of descendants already visited
    text,                  \* flattener: the accumulator `text`
    headlines,             \* flattener: the accumulator `headlines`
    fpc,                   \* flattener: "idle" | "loop" | "done"
    markup,                \* stripper: markdown(...) output, as tokens
    html,                  \* stripper: the local `html`
    remove_code_snippets,  \* stripper: the resolved flag
    content,               \* stripper: text of the parsed html
    spc,                   \* stripper: "idle" | "start" | "pre" | "code" | "done"
    self,                  \* converter: the constructor defaults
    callerMeta,            \* converter: the dict object the caller owns
    lastCall,              \* converter: the last convert call, arguments and result
    repeatOf               \* converter: the call before it, kept when the last call
                           \*            repeated it (same file, same arguments)

flatVars == <<soup, descendants, idx, text, headlines, fpc>>
stripVars == <<markup, html, remove_code_snippets, content, spc>>
convVars == <<self, callerMeta, lastCall, repeatOf>>
vars == <<soup, descendants, idx, text, headlines, fpc, markup, html, remove_code_snippets,
          content, spc, self, callerMeta, lastCall, repeatOf>>

None == [none |-> TRUE]

-----------------------------------------------------------------------------
(* Bounds *)

\* nodes of a tree over the small vocabulary
MaxNodes == 4
\* nodes of a tree over the full vocabulary (all six heading tags)
MaxShallow == 2
\* tokens of a rendered markup string
MaxLen == 5

-----------------------------------------------------------------------------
(* Sequences *)

RECURSIVE Flatten(_)
Flatten(ss) == IF ss = <<>> THEN <<>> ELSE Head(ss) \o Flatten(Tail(ss))

Range(s) == {s[i] : i \in 1..Len(s)}

-----------------------------------------------------------------------------
(* Markup trees (bs4): node 0 is the BeautifulSoup object, nodes 1..n are  *)
(* Tags and NavigableStrings; children of a node are ordered by id.        *)

TagNode(nm) == [kind |-> "tag", name |-> nm, value |-> <<>>]
StrNode(v) == [kind |-> "str", name |-> "None", value |-> v]

headline_tags == {"h1", "h2", "h3", "h4", "h5", "h6"}

\* desc.name[-1] for the tag names of the model
LastChar(nm) ==
    CASE nm = "h1" -> "1" [] nm = "h2" -> "2" [] nm = "h3" -> "3"
      [] nm = "h4" -> "4" [] nm = "h5" -> "5" [] nm = "h6" -> "6"
      [] nm = "p" -> "p" [] nm = "strong" -> "g" [] nm = "blockquote" -> "e"
      [] nm = "pre" -> "e" [] nm = "code" -> "e"

\* int(c) - 1 for a decimal digit c
LevelOffByOne(nm) ==
    LET c == LastChar(nm) IN
      CASE c = "0" -> 0 [] c = "1" -> 1 [] c = "2" -> 2 [] c = "3" -> 3
        [] c = "4" -> 4 [] c = "5" -> 5 [] c = "6" -> 6 [] c = "7" -> 7
        [] c = "8" -> 8 [] c = "9" -> 9

current_level(nm) ==
    LET c == LastChar(nm) IN
      (CASE c = "0" -> 0 [] c = "1" -> 1 [] c = "2" -> 2 [] c = "3" -> 3
         [] c = "4" -> 4 [] c = "5" -> 5 [] c = "6" -> 6 [] c = "7" -> 7
         [] c = "8" -> 8 [] c = "9" -> 9) - 1

Children(t, i) ==
    LET RECURSIVE Kids(_)
        Kids(j) == IF j > t.n THEN <<>>
                   ELSE (IF t.parent[j] = i THEN <<j>> ELSE <<>>) \o Kids(j + 1)
    IN Kids(1)

\* tag.descendants: pre-order, the node itself excluded
RECURSIVE Descendants(_, _)
Descendants(t, i) ==
    LET kids == Children(t, i) IN
      Flatten([k \in 1..Len(kids) |-> <<kids[k]>> \o Descendants(t, kids[k])])

\* PageElement.get_text(): a string gives its value, a tag (or the soup)
\* the joined values of the strings below it
GetText(t, i) ==
    IF i # 0 /\ t.node[i].kind = "str" THEN t.node[i].value
    ELSE LET ds == Descendants(t, i) IN
           Flatten([k \in 1..Len(ds) |->
                      IF t.node[ds[k]].kind = "str" THEN t.node[ds[k]].value ELSE <<>>])

WellFormed(t) ==
    \A i \in 1..t.n :
        /\ t.parent[i] < i
        /\ t.parent[i] = 0 \/ t.node[t.parent[i]].kind = "tag"

ParentMaps(n) == {p \in [1..n -> 0..(n - 1)] : \A i \in 1..n : p[i] < i}

Trees(kinds, maxn) ==
    UNION {{t \in [n : {n}, parent : ParentMaps(n), node : [1..n -> kinds]] :
              WellFormed(t)} : n \in 0..maxn}

SmallKinds == {TagNode("h1"), TagNode("h2"), TagNode("strong"),
               StrNode(<<"a">>), StrNode(<<"b", "c">>)}
AllKinds == {TagNode(nm) : nm \in headline_tags \cup {"p", "strong", "blockquote"}}
            \cup {StrNode(<<"a">>), StrNode(<<"b", "c">>)}

EmptySoup == [n |-> 0, parent |-> <<>>, node |-> <<>>]

-----------------------------------------------------------------------------
(* _extract_text_and_headlines *)

\* lines 136-139: the record appended for a heading element
HeadlineAfterText(t, d, txt) ==
    [headline |-> GetText(t, d),
     start_idx |-> Len(txt) + Len(GetText(t, d)),
     level |-> current_level(t.node[d].name)]

HeadlineOneBased(t, d, txt) ==
    [headline |-> GetText(t, d),
     start_idx |-> Len(txt) + 1,
     level |-> current_level(t.node[d].name)]

HeadlineRecord(t, d, txt) ==
    [headline |-> GetText(t, d),
     start_idx |-> Len(txt),
     level |-> current_level(t.node[d].name)]

\* lines 135-142: one iteration of the loop on descendant d
VisitAppendsHeadingText(t, acc, d) ==
    [headlines |-> IF t.node[d].name \in headline_tags
                   THEN Append(acc.headlines, HeadlineRecord(t, d, acc.text))
                   ELSE acc.headlines,
     text |-> IF t.node[d].kind = "str" \/ t.node[d].name \in headline_tags
              THEN acc.text \o GetText(t, d)
              ELSE acc.text]

Visit(t, acc, d) ==
    [headlines |-> IF t.node[d].name \in headline_tags
                   THEN Append(acc.headlines, HeadlineRecord(t, d, acc.text))
                   ELSE acc.headlines,
     text |-> IF t.node[d].kind = "str"
              THEN acc.text \o GetText(t, d)
              ELSE acc.text]

\* lines 131-144 as a function: the loop run to completion
_extract_text_and_headlines(t) ==
    LET ds == Descendants(t, 0)
        RECURSIVE Loop(_, _)
        Loop(acc, k) == IF k > Len(ds) THEN acc ELSE Loop(Visit(t, acc, ds[k]), k + 1)
    IN Loop([text |-> <<>>, headlines |-> <<>>], 1)

-----------------------------------------------------------------------------
(* Rendered markup as tokens, and re.sub(r"<k>(.*?)</k>", " ", html, DOTALL) *)

Open(k) == [t |-> "open", v |-> k]
Close(k) == [t |-> "close", v |-> k]
Char(c) == [t |-> "char", v |-> c]

SetMin(S) == CHOOSE x \in S : \A y \in S : x <= y
SetMax(S) == CHOOSE x \in S : \A y \in S : x >= y

\* positions of the closing tags of kind k after position j
ClosesAfter(k, s, j) == {m \in (j + 1)..Len(s) : s[m] = Close(k)}

\* a greedy pattern <k>(.*)</k>: from the first opening tag to the last
\* closing tag
re_sub_greedy(k, s) ==
    LET starts == {j \in 1..Len(s) : s[j] = Open(k) /\ ClosesAfter(k, s, j) # {}} IN
      IF starts = {} THEN s
      ELSE LET j == SetMin(starts)
               m == SetMax(ClosesAfter(k, s, j))
           IN SubSeq(s, 1, j - 1) \o <<Char(" ")>> \o SubSeq(s, m + 1, Len(s))

\* lines 100-101: leftmost match first, each match ends at the first closing
\* tag after its opening tag (.*? is lazy), the scan resumes after the match
RECURSIVE re_sub(_, _)
re_sub(k, s) ==
    LET starts == {j \in 1..Len(s) : s[j] = Open(k) /\ ClosesAfter(k, s, j) # {}} IN
      IF starts = {} THEN s
      ELSE LET j == SetMin(starts)
               m == SetMin(ClosesAfter(k, s, j))
           IN SubSeq(s, 1, j - 1) \o <<Char(" ")>>
                \o re_sub(k, SubSeq(s, m + 1, Len(s)))

-----------------------------------------------------------------------------
(* BeautifulSoup(html, "html.parser"): the tree builder of bs4 *)

preserve_whitespace_tags == {"pre", "textarea"}

\* endData(): flush the pending characters as one NavigableString below the
\* innermost open tag; a run of spaces collapses to one space unless a
\* whitespace-preserving tag is open
endData(b) ==
    IF b.cur = <<>> THEN b
    ELSE LET strippable ==
                 /\ \A i \in 1..Len(b.cur) : b.cur[i] = " "
                 /\ \A i \in 1..Len(b.stack) :
                        b.stack[i] = 0 \/ b.node[b.stack[i]].name \notin preserve_whitespace_tags
             v == IF strippable THEN <<" ">> ELSE b.cur
         IN [b EXCEPT !.node = Append(b.node, StrNode(v)),
                      !.parent = Append(b.parent, b.stack[Len(b.stack)]),
                      !.cur = <<>>]

\* handle_starttag: a new Tag below the innermost open tag, pushed
handle_starttag(b0, nm) ==
    LET b == endData(b0) IN
      [b EXCEPT !.node = Append(b.node, TagNode(nm)),
                !.parent = Append(b.parent, b.stack[Len(b.stack)]),
                !.stack = Append(b.stack, Len(b.node) + 1)]

\* handle_endtag / _popToTag: pop up to and including the innermost open tag
\* of that name; an end tag that matches no open tag is dropped
handle_endtag(b0, nm) ==
    LET b == endData(b0)
        hits == {i \in 2..Len(b.stack) : b.node[b.stack[i]].name = nm}
    IN IF hits = {} THEN b
       ELSE [b EXCEPT !.stack = SubSeq(b.stack, 1, SetMax(hits) - 1)]

handle_data(b, c) == [b EXCEPT !.cur = Append(b.cur, c)]

Parse(s) ==
    LET RECURSIVE Feed(_, _)
        Feed(b, i) ==
            IF i > Len(s) THEN endData(b)
            ELSE Feed(CASE s[i].t = "open" -> handle_starttag(b, s[i].v)
                        [] s[i].t = "close" -> handle_endtag(b, s[i].v)
                        [] s[i].t = "char" -> handle_data(b, s[i].v),
                      i + 1)
        r == Feed([node |-> <<>>, parent |-> <<>>, stack |-> <<0>>, cur |-> <<>>], 1)
    IN [n |-> Len(r.node), parent |-> r.parent, node |-> r.node]

-----------------------------------------------------------------------------
(* convert: dicts, argument defaults, metadata assembly *)

Str(x) == [s |-> x]
List(x) == [l |-> x]

EmptyDict == [k \in {} |-> None]
SetItem(d, k, v) == [x \in (DOMAIN d) \cup {k} |-> IF x = k THEN v ELSE d[x]]
\* d.update(e)
Update(d, e) == [x \in (DOMAIN d) \cup (DOMAIN e) |-> IF x \in DOMAIN e THEN e[x] ELSE d[x]]

\* an Optional[bool] argument: <<>> is None, <<b>> is b
OptBool == {<<>>, <<TRUE>>, <<FALSE>>}

\* lines 85-90: `x if x is not None else self.x`
Resolve(arg, default) == IF arg # <<>> THEN arg[1] ELSE default

\* lines 99-101
strip_code(h, remove) ==
    IF remove THEN re_sub("code", re_sub("pre", h)) ELSE h

\* lines 104-108
merge_caller_wins(meta, metadata, add) ==
    IF add
    THEN IF meta = None THEN metadata ELSE Update(metadata, meta)
    ELSE meta

merge_frontmatter(meta, metadata, add) ==
    IF add
    THEN IF meta = None THEN metadata ELSE Update(meta, metadata)
    ELSE meta

\* lines 110-114
set_headlines_always(meta, extract, hl) ==
    SetItem(IF meta = None THEN EmptyDict ELSE meta, "headlines", List(hl))

set_headlines_extend(meta, extract, hl) ==
    IF extract
    THEN LET m == IF meta = None THEN EmptyDict ELSE meta
             old == IF "headlines" \in DOMAIN m /\ DOMAIN m["headlines"] = {"l"}
                    THEN m["headlines"].l ELSE <<>>
         IN SetItem(m, "headlines", List(old \o hl))
    ELSE meta

set_headlines(meta, extract, hl) ==
    IF extract
    THEN SetItem(IF meta = None THEN EmptyDict ELSE meta, "headlines", List(hl))
    ELSE meta

\* lines 118-121
set_filename(meta, name) ==
    IF meta = None THEN SetItem(EmptyDict, "filename", Str(name))
    ELSE SetItem(meta, "filename", Str(name))

\* lines 85-124; `file` is what open/frontmatter.parse/markdown give for the
\* path: its base name, the front-matter mapping and the rendered markup;
\* `flat` and `plain` are the two text extractions of the parsed markup.
\* The result is the Document's content and the final value of `meta`.
convert_with(slf, file, meta, eh, afm, flat, plain) ==
    LET extract == Resolve(eh, slf.extract_headlines)
        add == Resolve(afm, slf.add_frontmatter_to_meta)
        m1 == merge_frontmatter(meta, file.metadata, add)
        m2 == set_headlines(m1, extract, flat.headlines)
    IN [content |-> IF extract THEN flat.text ELSE plain,
        meta |-> set_filename(m2, file.name)]

StripIdle ==
    /\ markup = <<>> /\ html = <<>> /\ remove_code_snippets = FALSE
    /\ content = <<>> /\ spc = "idle"

ConvIdle ==
    /\ self = None /\ callerMeta = None /\ lastCall = None /\ repeatOf = None

InitFlatten ==
    /\ soup \in Trees(SmallKinds, MaxNodes) \cup Trees(AllKinds, MaxShallow)
    /\ descendants = Descendants(soup, 0)
    /\ idx = 0
    /\ text = <<>>
    /\ headlines = <<>>
    /\ fpc = "loop"
    /\ StripIdle
    /\ ConvIdle

\* one iteration of `for desc in soup.descendants`
FlattenStep ==
    /\ fpc = "loop"
    /\ idx < Len(descendants)
    /\ LET acc == Visit(soup, [text |-> text, headlines |-> headlines],
                        descendants[idx + 1])
       IN /\ text' = acc.text
          /\ headlines' = acc.headlines
    /\ idx' = idx + 1
    /\ UNCHANGED <<soup, descendants, fpc, stripVars, convVars>>

\* `return text, headlines`
FlattenReturn ==
    /\ fpc = "loop"
    /\ idx = Len(descendants)
    /\ fpc' = "done"
    /\ UNCHANGED <<soup, descendants, idx, text, headlines, stripVars, convVars>>

NextFlatten == FlattenStep \/ FlattenReturn

SpecFlatten == InitFlatten /\ [][NextFlatten]_vars

-----------------------------------------------------------------------------
(* Properties of the flattener (SpecFlatten) *)

IsHeading(d) == soup.node[d].kind = "tag" /\ soup.node[d].name \in headline_tags

\* j lies strictly below d in the tree
RECURSIVE IsUnder(_, _)
IsUnder(j, d) ==
    IF j = 0 THEN FALSE
    ELSE soup.parent[j] = d \/ IsUnder(soup.parent[j], d)

\* the values of the text leaves among the visited nodes, in visiting order
LeafText(keep(_)) ==
    Flatten([k \in 1..Len(descendants) |->
               IF soup.node[descendants[k]].kind = "str" /\ keep(descendants[k])
               THEN soup.node[descendants[k]].value ELSE <<>>])

\* the heading elements in document order
HeadingElements == SelectSeq(descendants, IsHeading)

ExpectedLevel(nm) ==
    CASE nm = "h1" -> 0 [] nm = "h2" -> 1 [] nm = "h3" -> 2
      [] nm = "h4" -> 3 [] nm = "h5" -> 4 [] nm = "h6" -> 5

\* C1: at every step of the traversal and at its end, every heading record
\* has 0 <= start_idx <= len(text), and the start_idx values are
\* non-decreasing in list order.
C1_StartIdxInRangeAndSorted ==
    fpc \in {"loop", "done"} =>
        /\ \A k \in 1..Len(headlines) :
               /\ 0 <= headlines[k].start_idx
               /\ headlines[k].start_idx <= Len(text)
        /\ \A k \in 1..(Len(headlines) - 1) :
               headlines[k].start_idx <= headlines[k + 1].start_idx

\* C1 witness: a finished traversal with two headings at different offsets,
\* the second one strictly inside the text.
C1_Witness ==
    /\ fpc = "done"
    /\ Len(headlines) >= 2
    /\ headlines[1].start_idx < headlines[2].start_idx
    /\ headlines[2].start_idx < Len(text)

\* C2: in the final text every heading's own text begins at its start_idx:
\* content[start_idx : start_idx + len(headline)] == headline.
C2_HeadlineAtStartIdx ==
    fpc = "done" =>
        \A k \in 1..Len(headlines) :
            LET h == headlines[k] IN
              /\ h.start_idx + Len(h.headline) <= Len(text)
              /\ SubSeq(text, h.start_idx + 1, h.start_idx + Len(h.headline)) = h.headline

\* C2 witness: a heading whose text is split between a nested inline element
\* and a following text leaf, after a finished traversal.
C2_Witness ==
    /\ fpc = "done"
    /\ \E d \in 1..soup.n :
          /\ IsHeading(d)
          /\ Len(Children(soup, d)) = 2
          /\ soup.node[Children(soup, d)[1]].kind = "tag"
          /\ Children(soup, Children(soup, d)[1]) # <<>>
          /\ soup.node[Children(soup, d)[2]].kind = "str"
          /\ \E k \in 1..Len(headlines) : Len(headlines[k].headline) >= 2

\* C3: the returned list has exactly one record per h1..h6 element, in
\* document order, with level N-1 for tag hN and headline the concatenation
\* of the element's descendant text leaves; an empty tree yields ("", []).
C3_OneRecordPerHeading ==
    fpc = "done" =>
        /\ Len(headlines) = Len(HeadingElements)
        /\ Len(headlines) = Cardinality({d \in 1..soup.n : IsHeading(d)})
        /\ \A k \in 1..Len(headlines) :
              LET d == HeadingElements[k] IN
                /\ headlines[k].level = ExpectedLevel(soup.node[d].name)
                /\ headlines[k].headline = LeafText(LAMBDA j : IsUnder(j, d))
        /\ soup.n = 0 => text = <<>> /\ headlines = <<>>

\* C3 witness: a finished traversal that met a nested heading, a heading
\* without text and a heading of another level.
C3_Witness ==
    /\ fpc = "done"
    /\ \E d \in 1..soup.n : IsHeading(d) /\ soup.parent[d] # 0
    /\ \E k \in 1..Len(headlines) : headlines[k].headline = <<>>
    /\ \E k \in 1..Len(headlines) : headlines[k].level > 0

\* C8: the flattener's text equals the whole-tree get_text() used when
\* headings are not extracted, and both are the concatenation of the text
\* leaves in pre-order; elements contribute no characters.
C8_TextEqualsGetText ==
    fpc = "done" =>
        /\ text = GetText(soup, 0)
        /\ text = LeafText(LAMBDA j : TRUE)

\* C8 witness: a finished traversal of a tree with a heading element that
\* holds text and with text outside of it.
C8_Witness ==
    /\ fpc = "done"
    /\ \E d \in 1..soup.n :
          /\ IsHeading(d)
          /\ GetText(soup, d) # <<>>
          /\ Len(GetText(soup, d)) < Len(text)

-----------------------------------------------------------------------------
(* The code-block stripper inside convert (SpecStrip): lines 99-102, 116 *)

TextChars == {"a", "b"}
CodeKinds == {"pre", "code"}
Tokens == {Open(k) : k \in CodeKinds} \cup {Close(k) : k \in CodeKinds}
          \cup {Char(c) : c \in TextChars}

Markups == UNION {[1..n -> Tokens] : n \in 0..MaxLen}

FlatIdle ==
    /\ soup = EmptySoup /\ descendants = <<>> /\ idx = 0 /\ text = <<>>
    /\ headlines = <<>> /\ fpc = "idle"

InitStrip ==
    /\ markup \in Markups
    /\ html = markup
    /\ remove_code_snippets \in BOOLEAN
    /\ content = <<>>
    /\ spc = "start"
    /\ FlatIdle
    /\ ConvIdle

\* line 100
StripPre ==
    /\ spc = "start"
    /\ remove_code_snippets
    /\ html' = re_sub("pre", html)
    /\ spc' = "pre"
    /\ UNCHANGED <<markup, remove_code_snippets, content, flatVars, convVars>>

\* line 101
StripCode ==
    /\ spc = "pre"
    /\ html' = re_sub("code", html)
    /\ spc' = "code"
    /\ UNCHANGED <<markup, remove_code_snippets, content, flatVars, convVars>>

\* line 99 with the flag off
SkipStrip ==
    /\ spc = "start"
    /\ ~remove_code_snippets
    /\ spc' = "code"
    /\ UNCHANGED <<markup, html, remove_code_snippets, content, flatVars, convVars>>

\* lines 102 and 116
ParseAndGetText ==
    /\ spc = "code"
    /\ content' = GetText(Parse(html), 0)
    /\ spc' = "done"
    /\ UNCHANGED <<markup, html, remove_code_snippets, flatVars, convVars>>

NextStrip == StripPre \/ StripCode \/ SkipStrip \/ ParseAndGetText

SpecStrip == InitStrip /\ [][NextStrip]_vars

-----------------------------------------------------------------------------
(* Properties of the stripper (SpecStrip) *)

\* s[a..b] is balanced for kind k: as many opening as closing tags, and no
\* prefix closes more than it opened
Balanced(k, s, a, b) ==
    LET Cnt(tok, hi) == Cardinality({q \in a..hi : s[q] = tok}) IN
      /\ Cnt(Open(k), b) = Cnt(Close(k), b)
      /\ \A hi \in a..b : Cnt(Close(k), hi) <= Cnt(Open(k), hi)

\* position p lies inside a <k>...</k> region of s, for some kind k
InsideRegion(s, p) ==
    \E k \in CodeKinds : \E j \in 1..(p - 1) : \E m \in (p + 1)..Len(s) :
        /\ s[j] = Open(k)
        /\ s[m] = Close(k)
        /\ Balanced(k, s, j + 1, m - 1)

\* C4: with remove_code_snippets on, no text lying inside a <pre> or <code>
\* region of the rendered markup appears in content; with the flag off that
\* text is preserved.
C4_NoCodeTextInContent ==
    spc = "done" =>
        IF remove_code_snippets
        THEN \A c \in TextChars :
                 (/\ \E p \in 1..Len(markup) : markup[p] = Char(c)
                  /\ \A p \in 1..Len(markup) : markup[p] = Char(c) => InsideRegion(markup, p))
                 => c \notin Range(content)
        ELSE \A p \in 1..Len(markup) :
                 markup[p].t = "char" /\ InsideRegion(markup, p) => markup[p].v \in Range(content)

\* position p of s is consumed by a lazy match of kind k: an opening tag at or
\* before p with no closing tag between it and p, and a closing tag at or
\* after p
Consumed(k, s, p) ==
    \E j \in 1..p :
        /\ s[j] = Open(k)
        /\ \A q \in j..(p - 1) : s[q] # Close(k)
        /\ \E m \in p..Len(s) : m > j /\ s[m] = Close(k)

\* what is left of s: unconsumed tokens stay, every consumed closing tag (one
\* per match) leaves one space
LazyResult(k, s) ==
    Flatten([p \in 1..Len(s) |->
               IF ~Consumed(k, s, p) THEN <<s[p]>>
               ELSE IF s[p] = Close(k) THEN <<Char(" ")>> ELSE <<>>])

HasMatch(k, s) == \E j \in 1..Len(s) : s[j] = Open(k) /\ ClosesAfter(k, s, j) # {}

\* C10 as stated (refuted): each pass replaces the largest span, from an
\* opening tag to the last closing tag of the same kind, by one space.
C10_LargestSpan ==
    spc \in {"code", "done"} /\ remove_code_snippets =>
        html = re_sub_greedy("code", re_sub_greedy("pre", markup))

\* C10 amended: for <pre>, then <code>, each match runs from an opening tag
\* to the FIRST closing tag of that kind after it and is replaced by exactly
\* one space; tokens outside every match, the text between two separate
\* regions included, are kept; markup without a match is unchanged.
C10_ShortestSpan ==
    /\ spc = "pre" => html = LazyResult("pre", markup)
    /\ spc \in {"code", "done"} /\ remove_code_snippets =>
           /\ html = LazyResult("code", LazyResult("pre", markup))
           /\ ~HasMatch("pre", markup) /\ ~HasMatch("code", markup) => html = markup

\* C10 witness: two separate <code> regions with text between them, stripped;
\* the text between them is still there.
C10_Witness ==
    /\ spc = "code"
    /\ remove_code_snippets
    /\ Len(markup) = 5
    /\ markup[1] = Open("code") /\ markup[2] = Close("code")
    /\ markup[3] = Char("b")
    /\ markup[4] = Open("code") /\ markup[5] = Close("code")
    /\ html = <<Char(" "), Char("b"), Char(" ")>>

-----------------------------------------------------------------------------
(* Sequences of convert calls on one converter (Spec) *)

Chars(str) == [i \in 1..Len(str) |-> Char(str[i])]

\* a heading, a paragraph with inline code, a fenced block
HtmlA == <<Open("h1")>> \o Chars(<<"T">>) \o <<Close("h1")>>
         \o <<Open("p")>> \o Chars(<<"x">>) \o <<Open("code")>> \o Chars(<<"y">>)
         \o <<Close("code"), Close("p")>>
         \o <<Open("h2")>> \o Chars(<<"U">>) \o <<Close("h2")>>
         \o <<Open("pre"), Open("code")>> \o Chars(<<"z">>) \o <<Close("code"), Close("pre")>>

HtmlB == <<Open("p")>> \o Chars(<<"w">>) \o <<Close("p")>>

Files ==
    { [name |-> "a.md", html |-> HtmlA,
       metadata |-> SetItem(SetItem(EmptyDict, "a", Str("2")), "b", Str("3"))],
      [name |-> "b.md", html |-> HtmlB,
       metadata |-> SetItem(SetItem(EmptyDict, "headlines", Str("fm")), "filename", Str("fm"))] }

\* lines 96-102, 111 and 116 for each file and each value of the resolved
\* remove_code_snippets: the soup, its flattening and its get_text()
Soups ==
    [f \in Files |-> [remove \in BOOLEAN |->
        LET sp == Parse(strip_code(f.html, remove)) IN
          [flat |-> _extract_text_and_headlines(sp), plain |-> GetText(sp, 0)]]]

convert(slf, file, meta, rcs, eh, afm) ==
    LET remove == Resolve(rcs, slf.remove_code_snippets) IN
      convert_with(slf, file, meta, eh, afm,
                   Soups[file][remove].flat, Soups[file][remove].plain)

CallerMetas ==
    { SetItem(EmptyDict, "a", Str("1")),
      SetItem(SetItem(EmptyDict, "headlines", Str("mine")), "filename", Str("mine")) }

\* __init__ (lines 52-54) with its default arguments, and with each of
\* them inverted
Converters ==
    { [remove_code_snippets |-> TRUE, extract_headlines |-> FALSE,
       add_frontmatter_to_meta |-> FALSE],
      [remove_code_snippets |-> FALSE, extract_headlines |-> TRUE,
       add_frontmatter_to_meta |-> TRUE] }

Init ==
    /\ self \in Converters
    /\ callerMeta \in CallerMetas
    /\ lastCall = None
    /\ repeatOf = None
    /\ FlatIdle
    /\ StripIdle

\* one whole convert call; the caller passes its own dict or no meta
Convert ==
    \E file \in Files, pass_meta \in BOOLEAN, rcs \in OptBool, eh \in OptBool, afm \in OptBool :
        LET meta == IF pass_meta THEN callerMeta ELSE None
            r == convert(self, file, meta, rcs, eh, afm)
            args == [file |-> file, pass_meta |-> pass_meta, remove_code_snippets |-> rcs,
                     extract_headlines |-> eh, add_frontmatter_to_meta |-> afm]
        IN /\ callerMeta' = IF pass_meta THEN r.meta ELSE callerMeta
           /\ lastCall' = [args |-> args, meta |-> meta,
                           content |-> r.content, doc_meta |-> r.meta]
           /\ repeatOf' = IF lastCall # None /\ lastCall.args = args THEN lastCall ELSE None
           /\ UNCHANGED <<self, flatVars, stripVars>>

Next == Convert

Spec == Init /\ [][Next]_vars

-----------------------------------------------------------------------------
(* Properties of convert (Spec) *)

Called == lastCall # None

\* the resolved flags of the last call
LastExtract == Resolve(lastCall.args.extract_headlines, self.extract_headlines)
LastAdd == Resolve(lastCall.args.add_frontmatter_to_meta, self.add_frontmatter_to_meta)
LastRemove == Resolve(lastCall.args.remove_code_snippets, self.remove_code_snippets)

\* the caller meta of the last call as a mapping (no meta: no keys)
LastCallerMeta == IF lastCall.meta = None THEN EmptyDict ELSE lastCall.meta
LastFrontMatter == lastCall.args.file.metadata

\* the heading list the flattener gives for the last call's file
LastFlattenerList ==
    _extract_text_and_headlines(
        Parse(strip_code(lastCall.args.file.html, LastRemove))).headlines

FilenameIsBaseName ==
    /\ "filename" \in DOMAIN lastCall.doc_meta
    /\ lastCall.doc_meta["filename"] = Str(lastCall.args.file.name)

\* C5 as stated (refuted): with add_frontmatter_to_meta on, every caller key
\* that the front-matter has too holds the front-matter value and every
\* other caller key is kept (filename apart, which always is the base name).
C5_FrontMatterOverCaller ==
    Called =>
        /\ FilenameIsBaseName
        /\ LastAdd =>
              \A k \in (DOMAIN LastCallerMeta) \ {"filename"} :
                  /\ k \in DOMAIN lastCall.doc_meta
                  /\ lastCall.doc_meta[k] = IF k \in DOMAIN LastFrontMatter
                                            THEN LastFrontMatter[k] ELSE LastCallerMeta[k]

\* the keys convert itself assigns in the last call
AssignedKeys == {"filename"} \cup (IF LastExtract THEN {"headlines"} ELSE {})

\* C5 amended: the same for every caller key that convert does not assign
\* itself, that is every key but filename and, when headings are extracted,
\* headlines; filename always is the base name.
C5_FrontMatterOverCallerButAssigned ==
    Called =>
        /\ FilenameIsBaseName
        /\ LastAdd =>
              \A k \in (DOMAIN LastCallerMeta) \ AssignedKeys :
                  /\ k \in DOMAIN lastCall.doc_meta
                  /\ lastCall.doc_meta[k] = IF k \in DOMAIN LastFrontMatter
                                            THEN LastFrontMatter[k] ELSE LastCallerMeta[k]

\* C5 witness: caller meta {a: 1} and front-matter {a: 2, b: 3} merged.
C5_Witness ==
    /\ Called
    /\ LastAdd
    /\ lastCall.meta # None
    /\ "a" \in DOMAIN lastCall.meta /\ lastCall.meta["a"] = Str("1")
    /\ "a" \in DOMAIN LastFrontMatter /\ "b" \in DOMAIN LastFrontMatter
    /\ lastCall.doc_meta["a"] = Str("2")
    /\ lastCall.doc_meta["b"] = Str("3")
    /\ lastCall.doc_meta["filename"] = Str("a.md")

\* C6: a convert call leaves the caller's meta mapping as it was, so the meta
\* of the document an earlier call returned (the caller's dict when the
\* caller passed one, since Document keeps the reference, else the dict made
\* during that call) is not changed by a later call.
C6_CallerMetaUnchanged ==
    [][/\ callerMeta' = callerMeta
       /\ Called => (IF lastCall.args.pass_meta THEN callerMeta' ELSE lastCall.doc_meta)
                       = lastCall.doc_meta]_vars

\* C7 as stated (refuted): the result meta has the key headlines exactly
\* when heading extraction was requested, and then it is the flattener's list.
C7_HeadlinesIffRequested ==
    Called =>
        /\ ("headlines" \in DOMAIN lastCall.doc_meta) <=> LastExtract
        /\ LastExtract => lastCall.doc_meta["headlines"] = List(LastFlattenerList)

\* C7 amended: when extraction is requested headlines is the flattener's
\* list, replacing any other value; when it is not, convert neither adds nor
\* removes the key: it is there exactly when the caller meta or the merged
\* front-matter has it, with that value.
C7_HeadlinesSetWhenRequested ==
    Called =>
        IF LastExtract
        THEN /\ "headlines" \in DOMAIN lastCall.doc_meta
             /\ lastCall.doc_meta["headlines"] = List(LastFlattenerList)
        ELSE LET given == IF LastAdd THEN Update(LastCallerMeta, LastFrontMatter)
                          ELSE LastCallerMeta
             IN /\ ("headlines" \in DOMAIN lastCall.doc_meta) <=> ("headlines" \in DOMAIN given)
                /\ "headlines" \in DOMAIN given =>
                       lastCall.doc_meta["headlines"] = given["headlines"]

\* C7 witness: extraction requested by the per-call argument against the
\* constructor default, on a file with headings, with a headlines key in the
\* caller meta that the list replaces.
C7_Witness ==
    /\ Called
    /\ ~self.extract_headlines
    /\ lastCall.args.extract_headlines = <<TRUE>>
    /\ lastCall.meta # None
    /\ "headlines" \in DOMAIN lastCall.meta
    /\ lastCall.meta["headlines"] = Str("mine")
    /\ lastCall.doc_meta["headlines"] = List(LastFlattenerList)
    /\ Len(LastFlattenerList) = 2

HeadingList(m) == IF "headlines" \in DOMAIN m THEN m["headlines"] ELSE None

\* C9: a call that repeats the call before it (same file, same arguments,
\* same meta object) returns the same content and the same heading list.
C9_RepeatedCallSameResult ==
    repeatOf # None =>
        /\ lastCall.content = repeatOf.content
        /\ HeadingList(lastCall.doc_meta) = HeadingList(repeatOf.doc_meta)

\* C9 witness: a repeated call that passed the caller's dict both times and
\* extracted two headings.
C9_Witness ==
    /\ repeatOf # None
    /\ lastCall.args.pass_meta
    /\ LastExtract
    /\ lastCall.content # <<>>
    /\ HeadingList(lastCall.doc_meta) = List(LastFlattenerList)
    /\ Len(LastFlattenerList) = 2

=============================================================================
